---- MODULE Spec2Model ----
(***************************************************************************)
(* Paper-assembly pipeline of the exam-paper platform:                     *)
(*   app/services/exam_service.py   generate_exam                          *)
(*   app/llm/paper_planner.py       build_paper_blueprint                  *)
(*   app/llm/graph_flow.py          the LangGraph workflow and its nodes   *)
(*   app/llm/nodes/validate.py      validate_question                      *)
(*   app/graph/queries.py           subject/topic lookup, concept retrieval*)
(*                                                                         *)
(* Strings are modelled by what the code reads of them.  An input string   *)
(* is a record [pad, core]: core is the text without surrounding white     *)
(* space, pad says whether white space surrounds it.  A question text is a *)
(* record of the features validate_question inspects.  A concept name is a *)
(* pair <<source, index>>.                                                 *)
(***************************************************************************)
EXTENDS Integers, Sequences, FiniteSets, TLC

VARIABLES
    syllabus_n,     \* number of concepts in the static syllabus index (queries.py:62)
    gen_params,     \* parameters of the callable bound to generate_question
    call,           \* the entry point that was called, with its arguments
    node,           \* position of the workflow run
    state,          \* PaperState threaded through the workflow (graph_flow.py:15)
    svc,            \* generate_exam's locals while graph.invoke runs
    outcome,        \* what the call returned or raised
    gen_calls,      \* calls that entered the question generator
    retrieve_calls, \* calls of the three concept retrievers
    validate_runs,  \* executions of validate_questions_node
    regen_runs,     \* executions of regenerate_failed_questions
    round_log,      \* per validation round: batch size and number rejected
    graph_cache     \* whether _compiled_graph's lru_cache holds the compiled graph

vars == <<syllabus_n, gen_params, call, node, state, svc,
          outcome, gen_calls, retrieve_calls, validate_runs, regen_runs, round_log,
          graph_cache>>

-----------------------------------------------------------------------------
(* Bounds of the model *)

MaxTotal == 2
MaxRows == 1
MaxSyllabus == 1
MaxItems == 3

(* Program constants *)

MAX_RETRIES == 2
MIN_LENGTH == 30
MAX_LENGTH == 320
MaxTotalQuestions == 120

-----------------------------------------------------------------------------
(* Small helpers *)

Min(a, b) == IF a < b THEN a ELSE b

Range(s) == {s[i] : i \in 1..Len(s)}

RECURSIVE FilterSeq(_, _)
FilterSeq(s, keep) ==
    IF s = <<>> THEN <<>>
    ELSE IF Head(s) \in keep THEN <<Head(s)>> \o FilterSeq(Tail(s), keep)
    ELSE FilterSeq(Tail(s), keep)

None == "None"

-----------------------------------------------------------------------------
(* Strings *)

Str(pad, core) == [pad |-> pad, core |-> core]

\* str.strip()
strip(s) == s.core

\* truth value of a str: non-empty
truthy(s) == s.pad \/ s.core # ""

\* Lexicographic order of the topic names of the model, as sorted() orders them.
NameOrder == <<"Alpha", "Control Systems", "Machines", "Zeta">>

\* sorted(set_of_names)
sorted(names) == FilterSeq(NameOrder, names)

-----------------------------------------------------------------------------
(* Subjects and topics: app/graph/queries.py *)

SubjectIds == {"CE 2026", "CH 2026", "CS 2026", "EC 2026", "EE 2026",
               "Electrical Engineering", "ME 2026", "MT 2026"}

SUBJECT_LABELS ==
    [id \in SubjectIds |->
        CASE id = "CE 2026" -> "Civil Engineering"
          [] id = "CH 2026" -> "Chemical Engineering"
          [] id = "CS 2026" -> "Computer Science Engineering"
          [] id = "EC 2026" -> "Electronics and Communication Engineering"
          [] id = "EE 2026" -> "Electrical Engineering"
          [] id = "Electrical Engineering" -> "Electrical Engineering"
          [] id = "ME 2026" -> "Mechanical Engineering"
          [] id = "MT 2026" -> "Metallurgical Engineering"]

SUBJECT_PRIORITY(name) ==
    IF name \notin SubjectIds THEN 100
    ELSE IF name = "Electrical Engineering" THEN 1 ELSE 0

resolve_subject_label(subject_id) ==
    IF subject_id \in SubjectIds THEN SUBJECT_LABELS[subject_id] ELSE subject_id

\* Subject ids of the static syllabus index: present only when it has content.
syllabus_subjects == IF syllabus_n > 0 THEN {"EE 2026"} ELSE {}

\* list_subjects(): of the database names sharing a display label the one of
\* lowest priority is kept; every SUBJECT_LABELS key and every syllabus
\* subject is then added.  The result is the set of {id, name} entries.
list_subjects(db_names) ==
    LET preferred == {n \in db_names :
                        \A m \in db_names :
                            resolve_subject_label(m) = resolve_subject_label(n)
                                => SUBJECT_PRIORITY(n) <= SUBJECT_PRIORITY(m)}
        ids == preferred \cup SubjectIds \cup syllabus_subjects
    IN  {[id |-> i, name |-> resolve_subject_label(i)] : i \in ids}

-----------------------------------------------------------------------------
(* Input validation of generate_exam: exam_service.py:31-66 *)

NoNames == <<>>

Rejected(msg, names) ==
    [kind |-> "ValueError", msg |-> msg, names |-> names,
     subject_id |-> "", subject_label |-> "", selected_topics |-> <<>>,
     filtered |-> FALSE]

\* [topic.strip() for topic in topics if topic and topic.strip()]
RECURSIVE requested_topics(_)
requested_topics(items) ==
    IF items = <<>> THEN <<>>
    ELSE IF truthy(Head(items)) /\ strip(Head(items)) # ""
         THEN <<strip(Head(items))>> \o requested_topics(Tail(items))
         ELSE requested_topics(Tail(items))

\* A faulty membership test: only that the lookup is non-empty.
subject_in_lookup_nonempty(subject_id, available_subjects) ==
    available_subjects # {}

\* Whether subject_id is a key of subject_lookup (exam_service.py:39-40).
subject_in_lookup(subject_id, available_subjects) ==
    subject_id \in {item.id : item \in available_subjects}

\* A faulty listing: the offending topics as requested, neither deduplicated
\* nor sorted.
invalid_topics_as_requested(requested, available_topics) ==
    SelectSeq(requested, LAMBDA t : t \notin Range(available_topics))

\* sorted({topic for topic in requested_topics if topic not in available_topics})
invalid_topics(requested, available_topics) ==
    sorted({t \in Range(requested) : t \notin Range(available_topics)})

\* available_topics is what list_topics_for_subject(subject_id) returned: the
\* topics the graph, or else the syllabus, holds for the subject.
validate_request(subject, topics, db_names, available_topics) ==
    LET subject_id == strip(subject)
        available_subjects == list_subjects(db_names)
        subject_label == resolve_subject_label(subject_id)
        items == IF topics.given THEN topics.items ELSE <<>>
        requested == requested_topics(items)
        invalid == invalid_topics(requested, available_topics)
        selected == IF requested # <<>> THEN requested ELSE available_topics
    IN  IF subject_id = "" THEN Rejected("Subject is required", NoNames)
        ELSE IF available_subjects = {} THEN Rejected("No subjects available", NoNames)
        ELSE IF ~subject_in_lookup(subject_id, available_subjects)
             THEN Rejected("Unknown subject", <<subject_label>>)
        ELSE IF available_topics = <<>> THEN Rejected("No topics found", NoNames)
        ELSE IF requested # <<>> /\ invalid # <<>>
             THEN Rejected("Unknown topic(s)", invalid)
        ELSE [kind |-> "ok", msg |-> "", names |-> NoNames,
              subject_id |-> subject_id, subject_label |-> subject_label,
              selected_topics |-> selected,
              filtered |-> Range(selected) # Range(available_topics)]

-----------------------------------------------------------------------------
(* Question validation: app/llm/nodes/validate.py *)

Difficulties == {"Easy", "Medium", "Hard"}

\* Keys of DIFFICULTY_RULES
DIFFICULTY_RULES == {"Easy", "Medium", "Hard"}

\* A question text, by the features the validator reads: the number of '?'
\* characters, whether a "(a)"-like marker occurs, the number of
\* whitespace-delimited words, whether a forbidden phrase occurs, whether an
\* out-of-domain keyword occurs.
Text(qmarks, subpart, words, forbidden, non_ee) ==
    [qmarks |-> qmarks, subpart |-> subpart, words |-> words,
     forbidden |-> forbidden, non_ee |-> non_ee]

word_count(text) == text.words

contains_forbidden_phrase(text) == text.forbidden

contains_non_ee_content(text) == text.non_ee

appears_multi_question(text) == text.qmarks > 2 \/ text.subpart

Verdict(valid, reason) == [valid |-> valid, reason |-> reason]

\* A faulty rule chain: the length rules come before the multi-question rule.
validate_question_length_first(question) ==
    LET text == question.question
        difficulty == question.difficulty
        wc == word_count(text)
    IN  IF wc < MIN_LENGTH THEN Verdict(FALSE, "Question too short")
        ELSE IF wc > MAX_LENGTH THEN Verdict(FALSE, "Question too long")
        ELSE IF appears_multi_question(text)
            THEN Verdict(FALSE, "Multiple questions detected")
        ELSE IF contains_forbidden_phrase(text)
            THEN Verdict(FALSE, "Contains solution/explanation language")
        ELSE IF contains_non_ee_content(text)
            THEN Verdict(FALSE, "Out-of-domain (non-EE) content")
        ELSE IF difficulty \notin DIFFICULTY_RULES
            THEN Verdict(FALSE, "Unknown difficulty level")
        ELSE Verdict(TRUE, "OK")

\* A faulty rule chain: the length bounds themselves are rejected.
validate_question_strict_bounds(question) ==
    LET text == question.question
        difficulty == question.difficulty
        wc == word_count(text)
    IN  IF appears_multi_question(text)
            THEN Verdict(FALSE, "Multiple questions detected")
        ELSE IF wc <= MIN_LENGTH THEN Verdict(FALSE, "Question too short")
        ELSE IF wc >= MAX_LENGTH THEN Verdict(FALSE, "Question too long")
        ELSE IF contains_forbidden_phrase(text)
            THEN Verdict(FALSE, "Contains solution/explanation language")
        ELSE IF contains_non_ee_content(text)
            THEN Verdict(FALSE, "Out-of-domain (non-EE) content")
        ELSE IF difficulty \notin DIFFICULTY_RULES
            THEN Verdict(FALSE, "Unknown difficulty level")
        ELSE Verdict(TRUE, "OK")

\* A faulty call: the reason is written into the question, as the batch
\* validator validate_questions does (validate.py:117-119).
question_tagged_by_call(question, result) ==
    IF result.valid THEN question
    ELSE [question EXCEPT !.validation_error = result.reason]

\* The question object after validate_question(question) returned result:
\* the function reads question["question"] and question["difficulty"] and
\* assigns to no key of the dict.
question_after_call(question, result) == question

validate_question(question) ==
    LET text == question.question
        difficulty == question.difficulty
        wc == word_count(text)
    IN  IF appears_multi_question(text)
            THEN Verdict(FALSE, "Multiple questions detected")
        ELSE IF wc < MIN_LENGTH THEN Verdict(FALSE, "Question too short")
        ELSE IF wc > MAX_LENGTH THEN Verdict(FALSE, "Question too long")
        ELSE IF contains_forbidden_phrase(text)
            THEN Verdict(FALSE, "Contains solution/explanation language")
        ELSE IF contains_non_ee_content(text)
            THEN Verdict(FALSE, "Out-of-domain (non-EE) content")
        ELSE IF difficulty \notin DIFFICULTY_RULES
            THEN Verdict(FALSE, "Unknown difficulty level")
        ELSE Verdict(TRUE, "OK")

-----------------------------------------------------------------------------
(* Concept retrieval: app/graph/queries.py:196-351 *)

\* The first k concept names a source yields.
Rows(source, k) == [i \in 1..k |-> <<source, i>>]

\* _concept_fallback's last resort, the syllabus index: all of its concepts,
\* sampled down to limit only when limit is non-zero and exceeded.
syllabus_concepts(limit) ==
    IF limit # 0 /\ syllabus_n > limit THEN Rows("fallback", limit)
    ELSE Rows("fallback", syllabus_n)

\* _concept_fallback: the random concepts of its query (LIMIT $limit) when
\* that has rows, else the syllabus concepts.
concept_fallback(limit) ==
    {Rows("fallback", k) : k \in 1..Min(limit, MaxRows)}
        \cup {syllabus_concepts(limit)}

\* Every list a retrieval of the given strategy may return for the limit: the
\* rows of the strategy's own query (LIMIT $limit) when it has any, else what
\* _concept_fallback returns.
retrieval_results(strategy, limit) ==
    {Rows(strategy, k) : k \in 1..Min(limit, MaxRows)} \cup concept_fallback(limit)

-----------------------------------------------------------------------------
(* Blueprint: app/llm/paper_planner.py *)

\* int(total_questions * 0.5) and int(total_questions * 0.3): the float
\* product truncated; for 0 <= total_questions < 2000 it equals the integer
\* quotient below.
hf_count(total_questions) == (total_questions * 5) \div 10

rg_count(total_questions) == (total_questions * 3) \div 10

\* A faulty count: never_asked as a fixed 20% share, the limit
\* retrieve_concepts passes (graph_flow.py:40).
na_count_fifth(total_questions) == (total_questions * 2) \div 10

na_count(total_questions) ==
    total_questions - hf_count(total_questions) - rg_count(total_questions)

distribution_of(total_questions) ==
    [high_frequency |-> hf_count(total_questions),
     recency_gap |-> rg_count(total_questions),
     never_asked |-> na_count(total_questions)]

BlueprintItem(concept, difficulty, reason) ==
    [concept |-> concept, difficulty |-> difficulty, reason |-> reason]

\* The items of concepts, each with the reason of its strategy and the
\* difficulty drawn for it.
items_of(concepts, reasons, difficulties) ==
    [i \in 1..Len(concepts) |->
        BlueprintItem(concepts[i], difficulties[i], reasons[i])]

PaperBlueprint(total_questions, questions, subject) ==
    [total_questions |-> total_questions,
     distribution |-> distribution_of(total_questions),
     questions |-> questions,
     subject |-> subject]

\* The blueprints build_paper_blueprint may return once the three retrievals
\* returned high_freq, recency_gap and never_asked: one per choice of the
\* difficulty drawn for each concept.
blueprints_from(total_questions, subject, high_freq, recency_gap, never_asked) ==
    LET concepts == high_freq \o recency_gap \o never_asked
        reasons == [i \in 1..Len(high_freq) |-> "High frequency in PYQs"]
                    \o [i \in 1..Len(recency_gap) |-> "Not asked recently"]
                    \o [i \in 1..Len(never_asked) |-> "Never asked in PYQs"]
    IN  {PaperBlueprint(total_questions, items_of(concepts, reasons, d), subject) :
            d \in [1..Len(concepts) -> Difficulties]}

\* Every blueprint build_paper_blueprint(total_questions, cutoff_year, subject)
\* may return when no retrieval raises.
build_paper_blueprint(total_questions, subject) ==
    UNION {blueprints_from(total_questions, subject, t[1], t[2], t[3]) :
            t \in retrieval_results("high_frequency", hf_count(total_questions))
                \X retrieval_results("recency_gap", rg_count(total_questions))
                \X retrieval_results("never_asked", na_count(total_questions))}

NoBlueprint == PaperBlueprint(0, <<>>, "")

\* The topics argument the three retrievers get from build_paper_blueprint:
\* each is called with its count and subject alone, so topics keeps its
\* default.
retriever_topics == None

-----------------------------------------------------------------------------
(* Calls: a keyword call binds when every keyword names a parameter and      *)
(* every parameter without a default is given; otherwise Python raises       *)
(* TypeError before the callee runs.                                         *)

call_binds(params, required, keywords) ==
    keywords \subseteq params /\ required \subseteq keywords

\* def build_paper_blueprint(total_questions=65, cutoff_year=2019, subject=None)
BuildPaperBlueprintParams == {"total_questions", "cutoff_year", "subject"}

\* The keywords generate_exam passes to build_paper_blueprint.
ServiceBlueprintKeywords ==
    {"total_questions", "cutoff_year", "subject", "subject_label", "topics",
     "topics_selected"}

\* The keywords build_blueprint_node passes to build_paper_blueprint.
NodeBlueprintKeywords == {"total_questions", "cutoff_year"}

\* def generate_question(concept, difficulty, subject)
GenerateQuestionParams == {"concept", "difficulty", "subject"}

\* The keywords generate_questions_node and regenerate_failed_questions pass.
NodeGenerateKeywords == {"concept", "difficulty"}

\* The question generator is a collaborator of the workflow: the callable
\* bound to generate_question is the repository's wrapper of the language
\* model, or a stand-in taking exactly what the nodes pass.
GeneratorSignatures == {GenerateQuestionParams, NodeGenerateKeywords}

\* Whether the nodes' call of the bound generator binds.
generator_binds == call_binds(gen_params, gen_params, NodeGenerateKeywords)

-----------------------------------------------------------------------------
(* Workflow state and results *)

PaperState(keys, total_questions) ==
    [keys |-> keys,
     total_questions |-> total_questions,
     blueprint |-> NoBlueprint,
     questions |-> <<>>,
     validated_questions |-> <<>>,
     final_questions |-> <<>>,
     failed_questions |-> <<>>,
     retry_count |-> 0]

NoState == PaperState({}, 0)

NoDistribution == distribution_of(0)

Outcome(kind, msg, names, questions, distribution, topics) ==
    [kind |-> kind, msg |-> msg, names |-> names, questions |-> questions,
     total_questions |-> Len(questions), distribution |-> distribution,
     topics |-> topics]

NoOutcome == Outcome("none", "", NoNames, <<>>, NoDistribution, <<>>)

Raises(kind, msg, names) == Outcome(kind, msg, names, <<>>, NoDistribution, <<>>)

NoCall ==
    [kind |-> "none", total_questions |-> 0, subject |-> Str(FALSE, ""),
     topics |-> [given |-> FALSE, items |-> <<>>], db_names |-> {},
     available_topics |-> <<>>]

NoSvc ==
    [blueprint |-> NoBlueprint, subject_id |-> "", subject_label |-> "",
     selected_topics |-> <<>>, filtered |-> FALSE]

-----------------------------------------------------------------------------
(* The response of generate_exam: exam_service.py:15-22, 92-118 *)

Question(concept, difficulty, question) ==
    [concept |-> concept, difficulty |-> difficulty, question |-> question]

\* The templated sentence "Describe a question on {concept} from the
\* {subject_label} syllabus appropriate for {difficulty} level candidates."
Placeholder(concept, subject_label, difficulty) ==
    [template |-> "Describe a question on", concept |-> concept,
     subject_label |-> subject_label, difficulty |-> difficulty]

is_placeholder(q) == "template" \in DOMAIN q.question

question_from_blueprint_item(item, subject_label) ==
    Question(item.concept, item.difficulty,
             Placeholder(item.concept, subject_label, item.difficulty))

\* Lines 96-109: the generated questions, or else one placeholder per item.
response_questions(generated_questions, blueprint, subject_label) ==
    IF generated_questions # <<>>
    THEN [i \in 1..Len(generated_questions) |->
            Question(generated_questions[i].concept,
                     generated_questions[i].difficulty,
                     generated_questions[i].question)]
    ELSE [i \in 1..Len(blueprint.questions) |->
            question_from_blueprint_item(blueprint.questions[i], subject_label)]

\* Lines 77, 111-118.
GenerateExamResponse(generated_questions) ==
    Outcome("response", "", NoNames,
            response_questions(generated_questions, svc.blueprint, svc.subject_label),
            svc.blueprint.distribution, svc.selected_topics)

\* generate_exam_endpoint (api/v1/exam.py:25-35): a ValueError becomes HTTP
\* 400, a response 200, anything else the framework's 500.
http_status(result) ==
    IF result.kind = "response" THEN 200
    ELSE IF result.kind = "ValueError" THEN 400
    ELSE 500

-----------------------------------------------------------------------------
(* Inputs *)

Subjects ==
    {Str(FALSE, ""), Str(TRUE, ""), Str(TRUE, "EE 2026"),
     Str(FALSE, "Civil Engineering"), Str(FALSE, "Physics"),
     Str(FALSE, "Nonexistent Subject")}

\* Contents of the Subject nodes of the graph database.
DbSubjectSets ==
    {{}, {"Physics"}, {"Civil Engineering"}, {"Civil Engineering", "CE 2026"}}

TopicLists ==
    {<<>>, <<"Control Systems">>, <<"Control Systems", "Machines">>}

TopicArgs ==
    {[given |-> FALSE, items |-> <<>>]}
    \cup {[given |-> TRUE, items |-> t] : t \in
            {<<>>,
             <<Str(FALSE, "Control Systems")>>,
             <<Str(TRUE, "Machines")>>,
             <<Str(TRUE, ""), Str(FALSE, "")>>,
             <<Str(FALSE, "Zeta"), Str(TRUE, "Zeta"), Str(FALSE, "Alpha")>>,
             <<Str(FALSE, ""), Str(FALSE, "Control Systems"), Str(FALSE, "Zeta")>>,
             <<Str(FALSE, "Machines"), Str(FALSE, "Control Systems")>>}}

\* Texts the generator returns: an acceptable one and a 25-word one.
GoodText == Text(1, FALSE, 60, FALSE, FALSE)

ShortText == Text(1, FALSE, 25, FALSE, FALSE)

GeneratedTexts == {GoodText, ShortText}

-----------------------------------------------------------------------------
(* Initial state *)

Init ==
    /\ syllabus_n \in 0..MaxSyllabus
    /\ gen_params = GenerateQuestionParams
    /\ call = NoCall
    /\ node = "idle"
    /\ state = NoState
    /\ svc = NoSvc
    /\ outcome = NoOutcome
    /\ gen_calls = 0
    /\ retrieve_calls = 0
    /\ validate_runs = 0
    /\ regen_runs = 0
    /\ round_log = <<>>
    /\ graph_cache = FALSE

Idle == node = "idle" /\ call.kind = "none"

env == <<syllabus_n, gen_params, graph_cache>>

\* Blueprints within the bound of the model.
bounded(blueprint) == Len(blueprint.questions) <= MaxItems

counters == <<gen_calls, retrieve_calls, validate_runs, regen_runs, round_log>>

-----------------------------------------------------------------------------
(* generate_exam: exam_service.py:25-118 *)

\* An exception leaves the workflow run.  graph.invoke propagates it to its
\* caller; generate_exam catches it (line 93) and goes on with no generated
\* questions.
Raise(kind, msg) ==
    /\ node' = "raised"
    /\ outcome' = IF call.kind = "generate_exam"
                  THEN GenerateExamResponse(<<>>)
                  ELSE Raises(kind, msg, NoNames)

\* The call up to graph.invoke.  Validation errors are raised first.  The
\* call of build_paper_blueprint is made outside the try block, so what it
\* raises reaches the caller.
generate_exam ==
    /\ Idle
    /\ \E total \in 1..MaxTotal, subject \in Subjects, topics \in TopicArgs,
          db_names \in DbSubjectSets, available_topics \in TopicLists :
        LET v == validate_request(subject, topics, db_names, available_topics)
        IN  /\ call' = [kind |-> "generate_exam", total_questions |-> total,
                        subject |-> subject, topics |-> topics,
                        db_names |-> db_names,
                        available_topics |-> available_topics]
            /\ IF v.kind # "ok"
               THEN /\ outcome' = Raises(v.kind, v.msg, v.names)
                    /\ node' = "raised"
                    /\ UNCHANGED <<state, svc, retrieve_calls, graph_cache>>
               ELSE IF ~call_binds(BuildPaperBlueprintParams, {},
                                   ServiceBlueprintKeywords)
               THEN /\ outcome' = Raises("TypeError",
                                         "build_paper_blueprint() got an unexpected keyword argument",
                                         NoNames)
                    /\ node' = "raised"
                    /\ UNCHANGED <<state, svc, retrieve_calls, graph_cache>>
               ELSE \/ /\ outcome' = Raises("RetrievalError", "", NoNames)
                       /\ node' = "raised"
                       /\ UNCHANGED <<state, svc, retrieve_calls, graph_cache>>
                    \/ \E blueprint \in build_paper_blueprint(total, v.subject_id) :
                        /\ bounded(blueprint)
                        /\ svc' = [blueprint |-> blueprint,
                                   subject_id |-> v.subject_id,
                                   subject_label |-> v.subject_label,
                                   selected_topics |-> v.selected_topics,
                                   filtered |-> v.filtered]
                        /\ retrieve_calls' = retrieve_calls + 3
                        /\ state' = PaperState({"total_questions", "cutoff_year",
                                                "retry_count", "final_questions",
                                                "failed_questions"}, total)
                        /\ graph_cache' = TRUE
                        /\ node' = "retrieve_concepts"
                        /\ UNCHANGED outcome
            /\ UNCHANGED <<syllabus_n, gen_params, gen_calls, validate_runs,
                           regen_runs, round_log>>

-----------------------------------------------------------------------------
(* The workflow: app/llm/graph_flow.py *)

\* graph.invoke({"total_questions": .., "cutoff_year": .., "retry_count": 0})
\* on the compiled graph, as the module's own entry point does (lines 175-184),
\* with the generator its caller has bound.
invoke_graph ==
    /\ Idle
    /\ \E total \in 1..MaxTotal, generator \in GeneratorSignatures :
        /\ gen_params' = generator
        /\ call' = [NoCall EXCEPT !.kind = "graph_invoke", !.total_questions = total]
        /\ state' = PaperState({"total_questions", "cutoff_year", "retry_count"}, total)
        /\ node' = "retrieve_concepts"
        /\ UNCHANGED <<syllabus_n, svc, outcome, counters, graph_cache>>

\* The node calls the three retrievers; its result names no key of PaperState
\* and no later node reads it.
retrieve_concepts ==
    /\ node = "retrieve_concepts"
    /\ \/ /\ node' = "build_blueprint"
          /\ retrieve_calls' = retrieve_calls + 3
          /\ UNCHANGED outcome
       \/ /\ Raise("RetrievalError", "")
          /\ UNCHANGED retrieve_calls
    /\ UNCHANGED <<env, call, state, svc, gen_calls, validate_runs, regen_runs,
                   round_log>>

\* The node builds a blueprint of its own, from total_questions and
\* cutoff_year alone: no subject is passed.
build_blueprint_node ==
    /\ node = "build_blueprint"
    /\ \/ /\ call_binds(BuildPaperBlueprintParams, {}, NodeBlueprintKeywords)
          /\ \E blueprint \in build_paper_blueprint(state.total_questions, "") :
                /\ bounded(blueprint)
                /\ state' = [state EXCEPT !.blueprint = blueprint,
                                       !.keys = @ \cup {"blueprint"}]
          /\ node' = "generate_questions"
          /\ retrieve_calls' = retrieve_calls + 3
          /\ UNCHANGED outcome
       \/ /\ Raise("RetrievalError", "")
          /\ UNCHANGED <<state, retrieve_calls>>
    /\ UNCHANGED <<env, call, svc, gen_calls, validate_runs, regen_runs, round_log>>

\* What generate_question returns for an item and the text the model wrote.
generated_question(item, text) ==
    [concept |-> item.concept, difficulty |-> item.difficulty,
     question |-> text, validation_error |-> None]

\* One call of generate_question per item, in order.
generated_batch(items, texts) ==
    [i \in 1..Len(items) |-> generated_question(items[i], texts[i])]

\* state.get("retry_count", 0)
retry_of(st) == IF "retry_count" \in st.keys THEN st.retry_count ELSE 0

generate_questions_done(batch) ==
    /\ state' = [state EXCEPT !.questions = batch, !.keys = @ \cup {"questions"}]
    /\ node' = "validate_questions"

\* A faulty return: the regenerated items are appended to the old batch.
regenerate_done_appending(batch) ==
    /\ state' = [state EXCEPT !.questions = @ \o batch,
                              !.retry_count = retry_of(state) + 1,
                              !.keys = @ \cup {"retry_count"}]
    /\ node' = "validate_questions"

regenerate_done(batch) ==
    /\ state' = [state EXCEPT !.questions = batch,
                              !.retry_count = retry_of(state) + 1,
                              !.keys = @ \cup {"retry_count"}]
    /\ node' = "validate_questions"

\* What the generating node of the given name returns for its batch.
node_return(name, batch) ==
    IF name = "generate_questions" THEN generate_questions_done(batch)
    ELSE regenerate_done(batch)

\* The generation loop over items, shared by the two generating nodes: the
\* loop ends with a batch, which the node returns, or the first call fails
\* to bind, or the backend raises at some call.
generation_loop(items, returning) ==
    IF items = <<>> THEN node_return(returning, <<>>) /\ UNCHANGED <<gen_calls, outcome>>
    ELSE IF ~generator_binds
    THEN /\ Raise("TypeError", "generate_question() missing 1 required positional argument")
         /\ UNCHANGED <<state, gen_calls>>
    ELSE \/ \E texts \in [1..Len(items) -> GeneratedTexts] :
                /\ node_return(returning, generated_batch(items, texts))
                /\ gen_calls' = gen_calls + Len(items)
                /\ UNCHANGED outcome
         \/ \E k \in 1..Len(items) :
                /\ Raise("GeneratorError", "backend unavailable")
                /\ gen_calls' = gen_calls + k
                /\ UNCHANGED state

generate_questions_node ==
    /\ node = "generate_questions"
    /\ generation_loop(state.blueprint.questions, "generate_questions")
    /\ UNCHANGED <<env, call, svc, retrieve_calls, validate_runs, regen_runs,
                   round_log>>

\* A faulty split: only the first accepted question of the batch is kept.
valid_first_only(questions) ==
    LET accepted == SelectSeq(questions, LAMBDA q : validate_question(q).valid)
    IN  IF accepted = <<>> THEN <<>> ELSE <<Head(accepted)>>

\* The questions of the batch the validator accepts, in batch order.
RECURSIVE valid_of(_)
valid_of(questions) ==
    IF questions = <<>> THEN <<>>
    ELSE IF validate_question(Head(questions)).valid
         THEN <<Head(questions)>> \o valid_of(Tail(questions))
         ELSE valid_of(Tail(questions))

\* A faulty split: once a question of the batch is rejected the whole batch
\* counts as failed.
failed_whole_batch(questions) ==
    IF \A i \in 1..Len(questions) : validate_question(questions[i]).valid
    THEN <<>>
    ELSE [i \in 1..Len(questions) |->
            [questions[i] EXCEPT !.validation_error =
                                     validate_question(questions[i]).reason]]

\* The rejected questions of the batch, each with its validation_error set.
RECURSIVE failed_of(_)
failed_of(questions) ==
    IF questions = <<>> THEN <<>>
    ELSE IF validate_question(Head(questions)).valid
         THEN failed_of(Tail(questions))
         ELSE <<[Head(questions) EXCEPT
                    !.validation_error = validate_question(Head(questions)).reason]>>
              \o failed_of(Tail(questions))

\* A faulty accumulation: the valid questions of the batch replace the list.
accumulated_replacing(st) == valid_of(st.questions)

\* A faulty accumulation: the valid questions of the batch are not added.
accumulated_without_batch(st) ==
    IF "final_questions" \in st.keys THEN st.final_questions ELSE <<>>

\* How many questions of the batch the validator rejects.
rejected_count(questions) ==
    Cardinality({i \in 1..Len(questions) : ~validate_question(questions[i]).valid})

\* accumulated: the existing final_questions, when the state holds a list
\* there, extended by the batch's valid questions.
accumulated_of(st) ==
    (IF "final_questions" \in st.keys THEN st.final_questions ELSE <<>>)
        \o valid_of(st.questions)

\* A faulty round: the failures of earlier rounds are kept.
validated_state_carrying(st) ==
    [st EXCEPT !.validated_questions = accumulated_of(st),
               !.final_questions = accumulated_of(st),
               !.failed_questions = st.failed_questions \o failed_of(st.questions),
               !.keys = @ \cup {"validated_questions", "final_questions",
                                "failed_questions"}]

validated_state(st) ==
    [st EXCEPT !.validated_questions = accumulated_of(st),
               !.final_questions = accumulated_of(st),
               !.failed_questions = failed_of(st.questions),
               !.keys = @ \cup {"validated_questions", "final_questions",
                                "failed_questions"}]

\* A faulty edge: the run is always finalized.
should_retry_never(st) == "finalize_paper"

\* A faulty edge: the retry budget is not consulted.
should_retry_without_budget(st) ==
    IF st.failed_questions # <<>>
    THEN "regenerate_failed_questions"
    ELSE "finalize_paper"

\* A faulty edge: the budget is one round short.
should_retry_one_round(st) ==
    IF st.failed_questions # <<>> /\ retry_of(st) < MAX_RETRIES - 1
    THEN "regenerate_failed_questions"
    ELSE "finalize_paper"

should_retry(st) ==
    IF st.failed_questions # <<>> /\ retry_of(st) < MAX_RETRIES
    THEN "regenerate_failed_questions"
    ELSE "finalize_paper"

\* validate_questions_node followed by the conditional edge should_retry.
validate_questions_node ==
    /\ node = "validate_questions"
    /\ state' = validated_state(state)
    /\ node' = should_retry(state')
    /\ validate_runs' = validate_runs + 1
    /\ round_log' = Append(round_log,
                           [batch |-> Len(state.questions),
                            rejected |-> rejected_count(state.questions)])
    /\ UNCHANGED <<env, call, svc, outcome, gen_calls, retrieve_calls, regen_runs>>

\* A faulty regeneration: every item of the blueprint is generated again,
\* accepted or not.
regenerate_whole_blueprint ==
    /\ node = "regenerate_failed_questions"
    /\ generation_loop(state.blueprint.questions, "regenerate_failed_questions")
    /\ regen_runs' = regen_runs + 1
    /\ UNCHANGED <<env, call, svc, retrieve_calls, validate_runs, round_log>>

\* regenerate_failed_questions; its edge leads back to validate_questions.
regenerate_failed_questions ==
    /\ node = "regenerate_failed_questions"
    /\ IF retry_of(state) >= MAX_RETRIES \/ state.failed_questions = <<>>
       THEN /\ node' = "validate_questions"
            /\ UNCHANGED <<state, gen_calls, outcome>>
       ELSE generation_loop(state.failed_questions, "regenerate_failed_questions")
    /\ regen_runs' = regen_runs + 1
    /\ UNCHANGED <<env, call, svc, retrieve_calls, validate_runs, round_log>>

\* A faulty read: the failed questions are delivered with the accepted ones.
final_with_failed(st) ==
    IF "final_questions" \in st.keys
    THEN st.final_questions \o st.failed_questions
    ELSE <<>>

\* state.get("final_questions", [])
final_of(st) == IF "final_questions" \in st.keys THEN st.final_questions ELSE <<>>

\* result.get("final_questions") or result.get("validated_questions") or []
generated_questions_of(result) ==
    IF "final_questions" \in result.keys /\ result.final_questions # <<>>
        THEN result.final_questions
    ELSE IF "validated_questions" \in result.keys THEN result.validated_questions
    ELSE <<>>

\* finalize_paper, the edge to END, and the return of graph.invoke to its
\* caller: generate_exam builds its response, a direct caller gets the state.
finalize_paper ==
    /\ node = "finalize_paper"
    /\ state' = [state EXCEPT !.final_questions = final_of(state),
                              !.keys = @ \cup {"final_questions"}]
    /\ node' = "END"
    /\ outcome' = IF call.kind = "generate_exam"
                  THEN GenerateExamResponse(generated_questions_of(state'))
                  ELSE Outcome("result", "", NoNames, final_of(state),
                               NoDistribution, <<>>)
    /\ UNCHANGED <<env, call, svc, counters>>

Next ==
    \/ generate_exam
    \/ invoke_graph
    \/ retrieve_concepts
    \/ build_blueprint_node
    \/ generate_questions_node
    \/ validate_questions_node
    \/ regenerate_failed_questions
    \/ finalize_paper

Spec == Init /\ [][Next]_vars

-----------------------------------------------------------------------------
(* The counts of a blueprint as a function of total_questions alone:        *)
(* paper_planner.py:36-38 and 90-94, applied to every total the request     *)
(* schema admits.                                                           *)

InitPlan ==
    /\ syllabus_n = 0
    /\ gen_params = GenerateQuestionParams
    /\ call \in {[NoCall EXCEPT !.kind = "decide_counts", !.total_questions = t] :
                    t \in 1..MaxTotalQuestions}
    /\ node = "idle"
    /\ state = NoState
    /\ svc = NoSvc
    /\ outcome = NoOutcome
    /\ gen_calls = 0
    /\ retrieve_calls = 0
    /\ validate_runs = 0
    /\ regen_runs = 0
    /\ round_log = <<>>
    /\ graph_cache = FALSE

decide_counts ==
    /\ call.kind = "decide_counts"
    /\ outcome.kind = "none"
    /\ outcome' = Outcome("counts", "", NoNames, <<>>,
                          distribution_of(call.total_questions), <<>>)
    /\ UNCHANGED <<env, call, node, state, svc, counters>>

NextPlan == decide_counts

SpecPlan == InitPlan /\ [][NextPlan]_vars

-----------------------------------------------------------------------------
(* validate_question called twice on one question object, as a caller of    *)
(* the validator may do: validate.py:68-104.                                *)

QMarkCounts == {0, 2, 3, 4}

WordCounts == {25, 29, 30, 31, 319, 320, 321}

DifficultyLabels == {"Medium", "Expert"}

\* The question objects handed to the validator; validation_error is None
\* for a key the dict does not hold.
ValidatorInputs ==
    {[concept |-> <<"fallback", 1>>, difficulty |-> d,
      question |-> Text(qm, sp, wc, fb, ne), validation_error |-> ve] :
        d \in DifficultyLabels, qm \in QMarkCounts, sp \in BOOLEAN,
        wc \in WordCounts, fb \in BOOLEAN, ne \in BOOLEAN,
        ve \in {None, "Question too short"}}

InitValidate ==
    /\ syllabus_n = 0
    /\ gen_params = GenerateQuestionParams
    /\ call \in {[kind |-> "validate_question", question |-> q] :
                    q \in ValidatorInputs}
    /\ node = "idle"
    /\ state = NoState
    /\ svc = NoSvc
    /\ outcome = [kind |-> "verdicts", results |-> <<>>, question |-> call.question]
    /\ gen_calls = 0
    /\ retrieve_calls = 0
    /\ validate_runs = 0
    /\ regen_runs = 0
    /\ round_log = <<>>
    /\ graph_cache = FALSE

\* One call of validate_question on the object; its result is recorded.
validate_question_call ==
    /\ call.kind = "validate_question"
    /\ Len(outcome.results) < 2
    /\ LET result == validate_question(outcome.question)
       IN  outcome' = [outcome EXCEPT
                          !.results = Append(@, result),
                          !.question = question_after_call(@, result)]
    /\ UNCHANGED <<env, call, node, state, svc, counters>>

NextValidate == validate_question_call

SpecValidate == InitValidate /\ [][NextValidate]_vars

-----------------------------------------------------------------------------
(* Properties *)

Running ==
    node \in {"retrieve_concepts", "build_blueprint", "generate_questions",
              "validate_questions", "regenerate_failed_questions",
              "finalize_paper"}

\* Number of items of the blueprint the workflow run works on.
N == Len(state.blueprint.questions)

\* Every question generated in the run was rejected by the validator.
AllRejected ==
    /\ round_log # <<>>
    /\ \A i \in 1..Len(round_log) : round_log[i].rejected = round_log[i].batch

\* Every question of the initial batch was accepted.
FirstAttemptAccepted == round_log # <<>> /\ round_log[1].rejected = 0

Finished == node \in {"END", "raised"}

\* retry_count stays within 0..MAX_RETRIES and, as long as nothing is raised,
\* counts the runs of regenerate_failed_questions; a run ends only after a
\* validation round whose edge chose finalize_paper.
RetryBudgetKept ==
    /\ state.retry_count \in 0..MAX_RETRIES
    /\ regen_runs <= MAX_RETRIES
    /\ validate_runs <= MAX_RETRIES + 1
    /\ (node # "raised" => regen_runs = state.retry_count)
    /\ validate_runs <= state.retry_count + 1
    /\ (node = "END" => validate_runs >= 1 /\ should_retry(state) = "finalize_paper")

\* retry_count changes only by growing by one, in regenerate_failed_questions.
RetryCountStep ==
    state'.retry_count # state.retry_count =>
        /\ state'.retry_count = state.retry_count + 1
        /\ node = "regenerate_failed_questions"

\* An upper bound on the number of nodes a run has still to execute.
StepsLeft ==
    CASE node = "retrieve_concepts" -> 3 * MAX_RETRIES + 6
      [] node = "build_blueprint" -> 3 * MAX_RETRIES + 5
      [] node = "generate_questions" -> 3 * MAX_RETRIES + 4
      [] node = "validate_questions" -> 3 * (MAX_RETRIES - state.retry_count) + 3
      [] node = "regenerate_failed_questions" ->
            3 * (MAX_RETRIES - state.retry_count) + 2
      [] node = "finalize_paper" -> 1
      [] OTHER -> 0

\* Every node a run executes lowers StepsLeft, which is never negative.
RunAdvances == StepsLeft >= 0 /\ StepsLeft' >= 0 /\ StepsLeft' < StepsLeft

\* C1: every workflow run that raises nothing reaches finalize_paper and then
\* END, whatever the blueprint and the validator's verdicts: a running
\* workflow always has a next node to execute, every node executed lowers
\* the bound StepsLeft, and END is entered from finalize_paper only;
\* retry_count starts at 0, only grows by one and never exceeds MAX_RETRIES,
\* so regenerate_failed_questions runs at most MAX_RETRIES times and
\* validate_questions at most MAX_RETRIES + 1 times.
C1_RetryBudgetBoundsRun ==
    /\ [](RetryBudgetKept /\ (Running => ENABLED Next))
    /\ [][Running => RetryCountStep /\ RunAdvances]_vars
    /\ [][node' = "END" => node = "finalize_paper"]_vars

C1_Witness ==
    /\ node = "END"
    /\ state.retry_count = MAX_RETRIES
    /\ regen_runs = MAX_RETRIES
    /\ validate_runs = MAX_RETRIES + 1
    /\ state.final_questions # <<>>
    /\ state.failed_questions # <<>>

\* C2: when every generated question is rejected and the blueprint has
\* N >= 1 items, the run ends with retry_count = 2, no final question and
\* exactly 3 * N generator calls, after exactly two regeneration rounds.
C2_AlwaysRejectedEndsAfterTwoRetries ==
    (node = "END" /\ N >= 1 /\ AllRejected) =>
        /\ state.retry_count = 2
        /\ state.final_questions = <<>>
        /\ gen_calls = 3 * N
        /\ regen_runs = 2
        /\ validate_runs = 3

C2_Witness ==
    /\ node = "END"
    /\ N = 2
    /\ AllRejected
    /\ gen_calls = 6
    /\ state.retry_count = 2

\* C3: when every question of the initial batch is accepted, the run ends
\* with as many final questions as blueprint items, retry_count = 0, no run
\* of regenerate_failed_questions and one generator call per item.
C3_FirstAttemptSuccessNeedsNoRetry ==
    (node = "END" /\ FirstAttemptAccepted) =>
        /\ Len(state.final_questions) = N
        /\ state.retry_count = 0
        /\ regen_runs = 0
        /\ gen_calls = N
        /\ validate_runs = 1

C3_Witness ==
    /\ node = "END"
    /\ FirstAttemptAccepted
    /\ N = 2
    /\ Len(state.final_questions) = 2
    /\ gen_calls = 2

ExamCall == call.kind = "generate_exam"

\* The subject of the call, trimmed, is the id of a subject list_subjects returns.
SubjectKnown ==
    call.subject.core \in {item.id : item \in list_subjects(call.db_names)}

\* The requested topic names, trimmed, blank entries ignored.
RequestedNames ==
    {call.topics.items[i].core : i \in 1..Len(call.topics.items)} \ {""}

\* The requested names that are no known topic of the subject.
Offending == RequestedNames \ Range(call.available_topics)

\* The call passes every check of its subject and topics.
RequestAccepted ==
    /\ ExamCall
    /\ SubjectKnown
    /\ call.available_topics # <<>>
    /\ Offending = {}

\* C4: when the workflow yields no question, generate_exam returns one
\* placeholder question per item of the blueprint it built, in blueprint
\* order, each with the item's concept and difficulty.
C4_PlaceholderPerBlueprintItem ==
    (RequestAccepted /\ Finished /\ state.final_questions = <<>>) =>
        /\ outcome.kind = "response"
        /\ Len(outcome.questions) = Len(svc.blueprint.questions)
        /\ \A i \in 1..Len(outcome.questions) :
                outcome.questions[i] =
                    question_from_blueprint_item(svc.blueprint.questions[i],
                                                 svc.subject_label)

\* C5: a call whose subject is known and whose requested topics are all known
\* topics of the subject returns a response; it never raises.
C5_AcceptedRequestNeverRaises ==
    (RequestAccepted /\ Finished) => outcome.kind = "response"

\* C6: a call whose subject is blank or is not the id of a known subject
\* raises ValueError (HTTP 400) with no blueprint built, no workflow started,
\* no retriever called and no generator called.
C6_UnknownSubjectRejectedFirst ==
    (ExamCall /\ (call.subject.core = "" \/ ~SubjectKnown)) =>
        /\ outcome.kind = "ValueError"
        /\ outcome.msg = (IF call.subject.core = "" THEN "Subject is required"
                          ELSE "Unknown subject")
        /\ http_status(outcome) = 400
        /\ node = "raised"
        /\ retrieve_calls = 0
        /\ gen_calls = 0
        /\ svc = NoSvc
        /\ state = NoState

C6_Witness ==
    /\ ExamCall
    /\ call.subject.core = "Civil Engineering"
    /\ ~SubjectKnown
    /\ outcome.msg = "Unknown subject"

\* What the call does when it rejects the requested topics: a ValueError
\* naming exactly the offending topics, each once, and nothing else done.
OffendingTopicsEnumerated ==
    /\ outcome.kind = "ValueError"
    /\ outcome.msg = "Unknown topic(s)"
    /\ Range(outcome.names) = Offending
    /\ Len(outcome.names) = Cardinality(Offending)
    /\ node = "raised"
    /\ retrieve_calls = 0
    /\ gen_calls = 0
    /\ svc = NoSvc
    /\ state = NoState

\* C7 as stated: for a known subject, whenever a requested topic is not among
\* the subject's known topics the call raises a validation error that lists
\* every offending topic once, before any blueprint or generation work.
C7_AsStated ==
    (ExamCall /\ SubjectKnown /\ Offending # {}) => OffendingTopicsEnumerated

\* C7, amended: the same for a known subject that has at least one known
\* topic.
C7_UnknownTopicsEnumerated ==
    (ExamCall /\ SubjectKnown /\ call.available_topics # <<>> /\ Offending # {})
        => OffendingTopicsEnumerated

C7_Witness ==
    /\ ExamCall
    /\ SubjectKnown
    /\ Len(call.topics.items) = 3
    /\ Cardinality(Offending) = 2
    /\ outcome.names = <<"Alpha", "Zeta">>

\* C8: for every total_questions in 1..120 the distribution is
\* floor(total/2), floor(3*total/10) and the remainder; the three counts are
\* non-negative and sum to total_questions (5 / 3 / 2 for 10).
C8_DistributionSumsToTotal ==
    outcome.kind = "counts" =>
        LET t == call.total_questions
            d == outcome.distribution
        IN  /\ t \in 1..120
            /\ d.high_frequency = t \div 2
            /\ d.recency_gap = (3 * t) \div 10
            /\ d.never_asked = t - d.high_frequency - d.recency_gap
            /\ d.high_frequency >= 0 /\ d.recency_gap >= 0 /\ d.never_asked >= 0
            /\ d.high_frequency + d.recency_gap + d.never_asked = t
            /\ (t = 10 => d = [high_frequency |-> 5, recency_gap |-> 3,
                               never_asked |-> 2])

C8_Witness ==
    /\ outcome.kind = "counts"
    /\ call.total_questions = 10
    /\ outcome.distribution.never_asked = 2

\* C9: every call that passes the checks returns a response whose
\* distribution is that of the blueprint built for the request.
C9_ResponseReportsBlueprintDistribution ==
    (RequestAccepted /\ Finished) =>
        /\ outcome.kind = "response"
        /\ outcome.distribution = svc.blueprint.distribution
        /\ outcome.distribution = distribution_of(call.total_questions)

\* C10: a call that passes the checks returns a response that is either all
\* generated questions or all placeholders, never a mix, and all placeholders
\* when something was raised on the way.
C10_NoPartialPaper ==
    (RequestAccepted /\ Finished) =>
        /\ outcome.kind = "response"
        /\ \/ \A i \in 1..Len(outcome.questions) : is_placeholder(outcome.questions[i])
           \/ \A i \in 1..Len(outcome.questions) : ~is_placeholder(outcome.questions[i])
        /\ (node = "raised" =>
                \A i \in 1..Len(outcome.questions) : is_placeholder(outcome.questions[i]))

\* C11: every call that passes the checks is answered with a response that
\* holds at least one question, whatever the collaborators did.
C11_ResponseNeverEmpty ==
    (RequestAccepted /\ Finished) =>
        /\ outcome.kind = "response"
        /\ Len(outcome.questions) >= 1

\* C12: once validate_questions has run, the accepted and the failed questions
\* together are no more than the total_questions the run was asked for.
C12_AcceptedAndFailedWithinTotal ==
    validate_runs >= 1 =>
        Len(state.final_questions) + Len(state.failed_questions)
            <= state.total_questions

\* C13: a call that passes the checks raises nothing, and when its workflow
\* run ends with accepted questions while an item was rejected in every
\* round, the response holds exactly the accepted questions: fewer than the
\* blueprint has items and no placeholder.
C13_DroppedItemShortensPaper ==
    (RequestAccepted /\ Finished) =>
        /\ outcome.kind = "response"
        /\ (/\ node = "END"
            /\ state.final_questions # <<>>
            /\ state.failed_questions # <<>>)
            => /\ Len(outcome.questions) = Len(state.final_questions)
               /\ Len(outcome.questions) < Len(svc.blueprint.questions)
               /\ \A i \in 1..Len(outcome.questions) :
                    /\ ~is_placeholder(outcome.questions[i])
                    /\ outcome.questions[i].question
                            = state.final_questions[i].question

\* The first verdict recorded for the question of the call.
Validated == call.kind = "validate_question" /\ outcome.results # <<>>

\* For each rule, in the order of the claim, whether the question fails it
\* and the reasons the rule gives.
RuleFails ==
    LET t == call.question.question
    IN  <<t.qmarks > 2 \/ t.subpart,
          t.words < 30 \/ t.words > 320,
          t.forbidden,
          t.non_ee,
          call.question.difficulty \notin {"Easy", "Medium", "Hard"}>>

RuleReasons ==
    <<{"Multiple questions detected"},
      {"Question too short", "Question too long"},
      {"Contains solution/explanation language"},
      {"Out-of-domain (non-EE) content"},
      {"Unknown difficulty level"}>>

\* C14: the verdict carries the reason of the first rule, in the order
\* multi-question, length, forbidden phrase, domain, difficulty, that the
\* question fails, and is valid with reason OK when it fails none; a text
\* with more than two question marks is rejected with "Multiple questions
\* detected" whatever else holds of it.
C14_FirstFailingRuleWins ==
    Validated =>
        LET v == outcome.results[1]
            failing == {i \in 1..5 : RuleFails[i]}
        IN  /\ failing = {} => v = [valid |-> TRUE, reason |-> "OK"]
            /\ failing # {} =>
                /\ ~v.valid
                /\ \E i \in failing :
                    /\ \A j \in failing : i <= j
                    /\ v.reason \in RuleReasons[i]
            /\ call.question.question.qmarks > 2 =>
                v = [valid |-> FALSE, reason |-> "Multiple questions detected"]

C14_Witness ==
    /\ Validated
    /\ call.question.question.qmarks = 3
    /\ call.question.question.words = 25
    /\ call.question.question.forbidden
    /\ call.question.difficulty = "Expert"
    /\ outcome.results[1].reason = "Multiple questions detected"

\* C15: a question that passes the multi-question rule is rejected as too
\* short exactly when it has fewer than 30 words and as too long exactly
\* when it has more than 320; 30 and 320 words pass the length rules.
C15_LengthBounds ==
    (Validated /\ ~RuleFails[1]) =>
        LET v == outcome.results[1]
            words == call.question.question.words
        IN  /\ (v.reason = "Question too short") <=> (words < 30)
            /\ (v.reason = "Question too long") <=> (words > 320)
            /\ (v.reason \in RuleReasons[2] => ~v.valid)

C15_Witness ==
    /\ Validated
    /\ ~RuleFails[1]
    /\ call.question.question.words = 30
    /\ outcome.results[1] = [valid |-> TRUE, reason |-> "OK"]

Returned(blueprint, reason) ==
    Cardinality({i \in 1..Len(blueprint.questions) :
                    blueprint.questions[i].reason = reason})

\* C17: a blueprint reports the requested counts as its distribution and has
\* one item per concept the three retrievals returned; when each retrieval
\* returned at least its requested count it has total_questions items.
C17_BlueprintLengthFollowsRetrievals ==
    "blueprint" \in state.keys =>
        LET b == state.blueprint
            hf == Returned(b, "High frequency in PYQs")
            rg == Returned(b, "Not asked recently")
            na == Returned(b, "Never asked in PYQs")
        IN  /\ b.distribution.high_frequency = b.total_questions \div 2
            /\ b.distribution.recency_gap = (3 * b.total_questions) \div 10
            /\ b.distribution.never_asked = b.total_questions
                    - b.distribution.high_frequency - b.distribution.recency_gap
            /\ Len(b.questions) = hf + rg + na
            /\ (/\ hf >= b.distribution.high_frequency
                /\ rg >= b.distribution.recency_gap
                /\ na >= b.distribution.never_asked)
                => Len(b.questions) = b.total_questions

\* C18: the blueprint the workflow of a request generates questions for is
\* the blueprint generate_exam built for the request.
C18_OneBlueprintPerRequest ==
    (RequestAccepted /\ Finished) =>
        /\ "blueprint" \in state.keys
        /\ state.blueprint = svc.blueprint

\* C19: a call for a known subject that requests no topic (none given, an
\* empty list, or blank entries only) is answered with a response whose
\* topics are all the known topics of the subject.
C19_NoTopicsMeansAllTopics ==
    (RequestAccepted /\ Finished /\ RequestedNames = {}) =>
        /\ outcome.kind = "response"
        /\ outcome.topics = call.available_topics
        /\ svc.selected_topics = call.available_topics

\* The edge taken after validate_questions, by the validated state.
RetryDue == state.failed_questions # <<>> /\ state.retry_count < 2

\* C20: validate_questions is followed by regenerate_failed_questions exactly
\* when there are failed questions and retry_count < 2, and by finalize_paper
\* otherwise; regenerate_failed_questions is never entered with its budget
\* spent or with nothing to regenerate.
C20_RetryEdge ==
    /\ [][node = "validate_questions" =>
            /\ node' \in {"regenerate_failed_questions", "finalize_paper"}
            /\ (node' = "regenerate_failed_questions") <=> RetryDue']_vars
    /\ [](node = "regenerate_failed_questions" => RetryDue)

C20_Witness ==
    /\ node = "regenerate_failed_questions"
    /\ state.retry_count = 1
    /\ state.final_questions # <<>>

\* Whether the validator accepts the question.
Accepted(q) == validate_question(q).valid

\* The questions of the batch the validator rejects, each with the
\* validator's reason as its validation_error.
RejectedWithReason(batch) ==
    LET rejected == SelectSeq(batch, LAMBDA q : ~Accepted(q))
    IN  [i \in 1..Len(rejected) |->
            [rejected[i] EXCEPT !.validation_error =
                                    validate_question(rejected[i]).reason]]

\* C21: each validate_questions step leaves final_questions as the previous
\* final_questions followed by the accepted questions of the batch, in batch
\* order; no other step of a run changes final_questions.
C21_FinalQuestionsAppendOnly ==
    /\ [][node = "validate_questions" =>
            state'.final_questions =
                state.final_questions \o SelectSeq(state.questions, Accepted)]_vars
    /\ [][(Running /\ node # "validate_questions") =>
            state'.final_questions = state.final_questions]_vars

C21_Witness ==
    /\ validate_runs = 2
    /\ round_log[1].rejected >= 1
    /\ round_log[1].batch - round_log[1].rejected >= 1
    /\ round_log[2].batch - round_log[2].rejected >= 1
    /\ Len(state.final_questions) >= 2

\* C22: each validate_questions step leaves failed_questions as exactly the
\* rejected questions of the current batch, in batch order, each carrying the
\* validator's reason; earlier failures are not kept.
C22_FailedQuestionsOfThisRound ==
    [][node = "validate_questions" =>
        /\ state'.failed_questions = RejectedWithReason(state.questions)
        /\ \A i \in 1..Len(state'.failed_questions) :
                state'.failed_questions[i].validation_error # None]_vars

C22_Witness ==
    /\ validate_runs = 2
    /\ round_log[1].rejected = 2
    /\ round_log[2].rejected = 1
    /\ Len(state.failed_questions) = 1
    /\ state.failed_questions[1].validation_error = "Question too short"

\* C23: a run of regenerate_failed_questions that returns calls the generator
\* once per failed question, makes questions the regenerated items (one per
\* failed question, in order, with its concept and difficulty, and nothing
\* else), raises retry_count by one, and leaves final_questions,
\* failed_questions and the blueprint alone.
C23_RegenerationReplacesBatch ==
    [][(node = "regenerate_failed_questions" /\ node' = "validate_questions") =>
        LET failed == state.failed_questions
        IN  /\ failed # <<>> /\ state.retry_count < 2
            /\ gen_calls' = gen_calls + Len(failed)
            /\ Len(state'.questions) = Len(failed)
            /\ \A i \in 1..Len(failed) :
                /\ state'.questions[i].concept = failed[i].concept
                /\ state'.questions[i].difficulty = failed[i].difficulty
                /\ state'.questions[i].validation_error = None
            /\ state'.retry_count = state.retry_count + 1
            /\ state'.final_questions = state.final_questions
            /\ state'.failed_questions = failed
            /\ state'.blueprint = state.blueprint]_vars

C23_Witness ==
    /\ node = "validate_questions"
    /\ state.retry_count = 2
    /\ Len(state.questions) = 1
    /\ Len(state.failed_questions) = 1
    /\ Len(state.final_questions) >= 1
    /\ state.questions[1].concept = state.failed_questions[1].concept

\* Number of questions rejected in validation round k of the run (0 when the
\* run had no such round).
RejectedInRound(k) == IF k <= Len(round_log) THEN round_log[k].rejected ELSE 0

\* The generator was called once per blueprint item, once per question
\* rejected in the initial round and once per question rejected in the first
\* retry round.
CallsAddUp == gen_calls = N + RejectedInRound(1) + RejectedInRound(2)

WorkflowCall == call.kind = "graph_invoke"

\* The statement of C24 for every run that is over, however it ended.
C24_AsStated ==
    (WorkflowCall /\ Finished /\ "blueprint" \in state.keys) => CallsAddUp

\* C24: in a run that ends without an exception the generator was called
\* N + (rejected in the initial round) + (rejected in the first retry round)
\* times; at any point of any run it was called at most 3 * N times, and not
\* at all before there is a blueprint.
C24_GeneratorCallsCounted ==
    WorkflowCall =>
        /\ node = "END" => CallsAddUp
        /\ "blueprint" \in state.keys => gen_calls <= 3 * N
        /\ "blueprint" \notin state.keys => gen_calls = 0

C24_Witness ==
    /\ WorkflowCall
    /\ node = "END"
    /\ N = 2
    /\ RejectedInRound(1) = 2
    /\ RejectedInRound(2) = 1
    /\ gen_calls = 5

\* The (concept, difficulty) of a blueprint item or of a question.
Slot(x) == <<x.concept, x.difficulty>>

\* How many elements of the sequence have the given (concept, difficulty).
Occurrences(seq, slot) == Cardinality({i \in 1..Len(seq) : Slot(seq[i]) = slot})

Slots(seq) == {Slot(seq[i]) : i \in 1..Len(seq)}

\* The regenerated batch that waits for its validation round.
AwaitingValidation ==
    IF node = "validate_questions" /\ validate_runs >= 1 THEN state.questions ELSE <<>>

\* Number of questions accepted in validation round k.
AcceptedInRound(k) == round_log[k].batch - round_log[k].rejected

RECURSIVE AcceptedUpTo(_)
AcceptedUpTo(k) == IF k = 0 THEN 0 ELSE AcceptedInRound(k) + AcceptedUpTo(k - 1)

\* C25: final_questions holds, for every (concept, difficulty), at most as
\* many questions as the blueprint has items for it, a regenerated batch
\* included; each validation round after the first validates exactly the
\* questions the round before rejected, and final_questions holds one entry
\* per acceptance.
C25_OneQuestionPerBlueprintItem ==
    (WorkflowCall /\ "blueprint" \in state.keys) =>
        /\ \A slot \in Slots(state.final_questions) \cup Slots(AwaitingValidation) :
                Occurrences(state.final_questions, slot)
                    + Occurrences(AwaitingValidation, slot)
                        <= Occurrences(state.blueprint.questions, slot)
        /\ Len(state.final_questions) <= N
        /\ Len(state.final_questions) = AcceptedUpTo(Len(round_log))
        /\ \A k \in 1..(Len(round_log) - 1) :
                round_log[k + 1].batch = round_log[k].rejected

C25_Witness ==
    /\ WorkflowCall
    /\ node = "END"
    /\ validate_runs = 3
    /\ N = 2
    /\ AcceptedInRound(1) = 1
    /\ AcceptedInRound(2) = 0
    /\ AcceptedInRound(3) = 1
    /\ Len(state.final_questions) = 2

\* The question is one the validator accepts with reason "OK" and it carries
\* no validation_error.
AcceptedUntouched(q) ==
    /\ validate_question(q) = Verdict(TRUE, "OK")
    /\ q.validation_error = None

\* C26: every question of final_questions, during the run and in the result
\* finalize_paper delivers, is accepted by the validator with "OK" and carries
\* no validation_error; finalize_paper leaves final_questions as the last
\* validation round left it and delivers exactly that list.
C26_FinalizeEmitsAcceptedOnly ==
    /\ [](WorkflowCall =>
            /\ \A i \in 1..Len(state.final_questions) :
                    AcceptedUntouched(state.final_questions[i])
            /\ node = "END" =>
                    /\ outcome.kind = "result"
                    /\ outcome.questions = state.final_questions
                    /\ \A i \in 1..Len(outcome.questions) :
                            AcceptedUntouched(outcome.questions[i]))
    /\ [][(WorkflowCall /\ node = "finalize_paper") =>
            /\ validate_runs >= 1
            /\ state'.final_questions = state.final_questions
            /\ outcome'.questions = state.final_questions]_vars

C26_Witness ==
    /\ WorkflowCall
    /\ node = "END"
    /\ Len(outcome.questions) = 1
    /\ Len(state.failed_questions) = 1
    /\ state.failed_questions[1].validation_error # None
    /\ AcceptedUntouched(outcome.questions[1])

\* C30: from the first validation round on, final_questions and
\* failed_questions together hold one question per blueprint item: their
\* lengths add up to the number of items and, for every (concept, difficulty),
\* they hold as many questions as the blueprint has items.
C30_BlueprintItemsConserved ==
    (WorkflowCall /\ validate_runs >= 1) =>
        /\ Len(state.final_questions) + Len(state.failed_questions) = N
        /\ \A slot \in Slots(state.blueprint.questions)
                        \cup Slots(state.final_questions)
                        \cup Slots(state.failed_questions) :
                Occurrences(state.final_questions, slot)
                    + Occurrences(state.failed_questions, slot)
                        = Occurrences(state.blueprint.questions, slot)

C30_Witness ==
    /\ WorkflowCall
    /\ validate_runs = 2
    /\ node = "regenerate_failed_questions"
    /\ N = 3
    /\ Len(state.final_questions) = 2
    /\ Len(state.failed_questions) = 1
    /\ AcceptedInRound(1) = 1
    /\ AcceptedInRound(2) = 1

\* The call passes the checks and asks for some, not all, of the topics of
\* its subject.
ProperSubsetRequested ==
    /\ RequestAccepted
    /\ RequestedNames # {}
    /\ RequestedNames # Range(call.available_topics)

\* C28: a call that asks for a proper subset of its subject's topics gets a
\* response, and the three retrievals of its blueprint were given exactly
\* the requested topics as their topic filter.
C28_TopicFilterReachesRetrievals ==
    (ProperSubsetRequested /\ Finished) =>
        /\ outcome.kind = "response"
        /\ svc.filtered
        /\ retrieve_calls >= 3
        /\ retriever_topics # None
        /\ Range(retriever_topics) = RequestedNames

\* C29: a blueprint holds, for each strategy, no more items than the limit
\* its retrieval was given, and so no more items than total_questions.
C29_RetrievalsWithinLimit ==
    "blueprint" \in state.keys =>
        LET b == state.blueprint
        IN  /\ Returned(b, "High frequency in PYQs") <= hf_count(b.total_questions)
            /\ Returned(b, "Not asked recently") <= rg_count(b.total_questions)
            /\ Returned(b, "Never asked in PYQs") <= na_count(b.total_questions)
            /\ Len(b.questions) <= b.total_questions

-----------------------------------------------------------------------------
(* Concurrent requests: the endpoint is a plain function (api/v1/exam.py:   *)
(* 25-35), so the server runs each request's generate_exam on a thread of   *)
(* its pool; the threads share the module's cache of the compiled graph.    *)

Requests == {1, 2}

ConcurrentSubjects == {Str(TRUE, "EE 2026"), Str(FALSE, "Nonexistent Subject")}

ConcurrentTopicArgs ==
    {[given |-> FALSE, items |-> <<>>],
     [given |-> TRUE, items |-> <<Str(FALSE, "Control Systems")>>],
     [given |-> TRUE, items |-> <<Str(FALSE, "Zeta"), Str(FALSE, "Alpha")>>]}

\* What list_topics_for_subject returns while the requests run.
ConcurrentAvailableTopics == <<"Control Systems", "Machines">>

InitPair ==
    /\ syllabus_n = 0
    /\ gen_params = GenerateQuestionParams
    /\ call = [r \in Requests |-> NoCall]
    /\ node = [r \in Requests |-> "idle"]
    /\ state = [r \in Requests |-> NoState]
    /\ svc = [r \in Requests |-> NoSvc]
    /\ outcome = [r \in Requests |-> NoOutcome]
    /\ gen_calls = 0
    /\ retrieve_calls = 0
    /\ validate_runs = 0
    /\ regen_runs = 0
    /\ round_log = <<>>
    /\ graph_cache = FALSE

\* generate_exam on the thread of request r, up to graph.invoke: its checks,
\* then build_paper_blueprint, then _compiled_graph() and the initial state
\* of its own workflow run.
concurrent_generate_exam(r) ==
    /\ node[r] = "idle"
    /\ \E total \in 1..MaxTotal, subject \in ConcurrentSubjects,
          topics \in ConcurrentTopicArgs :
        LET v == validate_request(subject, topics, {}, ConcurrentAvailableTopics)
        IN  /\ call' = [call EXCEPT ![r] =
                            [kind |-> "generate_exam", total_questions |-> total,
                             subject |-> subject, topics |-> topics,
                             db_names |-> {},
                             available_topics |-> ConcurrentAvailableTopics]]
            /\ IF v.kind # "ok"
               THEN /\ outcome' = [outcome EXCEPT ![r] = Raises(v.kind, v.msg, v.names)]
                    /\ node' = [node EXCEPT ![r] = "raised"]
                    /\ UNCHANGED <<state, svc, retrieve_calls, graph_cache>>
               ELSE IF ~call_binds(BuildPaperBlueprintParams, {},
                                   ServiceBlueprintKeywords)
               THEN /\ outcome' = [outcome EXCEPT ![r] =
                                      Raises("TypeError",
                                             "build_paper_blueprint() got an unexpected keyword argument",
                                             NoNames)]
                    /\ node' = [node EXCEPT ![r] = "raised"]
                    /\ UNCHANGED <<state, svc, retrieve_calls, graph_cache>>
               ELSE \E blueprint \in build_paper_blueprint(total, v.subject_id) :
                        /\ bounded(blueprint)
                        /\ svc' = [svc EXCEPT ![r] =
                                      [blueprint |-> blueprint,
                                       subject_id |-> v.subject_id,
                                       subject_label |-> v.subject_label,
                                       selected_topics |-> v.selected_topics,
                                       filtered |-> v.filtered]]
                        /\ retrieve_calls' = retrieve_calls + 3
                        /\ graph_cache' = TRUE
                        /\ state' = [state EXCEPT ![r] =
                                        PaperState({"total_questions", "cutoff_year",
                                                    "retry_count", "final_questions",
                                                    "failed_questions"}, total)]
                        /\ node' = [node EXCEPT ![r] = "retrieve_concepts"]
                        /\ UNCHANGED outcome
    /\ UNCHANGED <<syllabus_n, gen_params, gen_calls, validate_runs, regen_runs,
                   round_log>>

NextPair == \E r \in Requests : concurrent_generate_exam(r)

SpecPair == InitPair /\ [][NextPair]_vars

\* The call of request r passes every check of its subject and topics.
AcceptedRequest(r) ==
    /\ call[r].kind = "generate_exam"
    /\ validate_request(call[r].subject, call[r].topics, call[r].db_names,
                        call[r].available_topics).kind = "ok"

====
